---------------------------- MODULE Spec2Model ----------------------------
(***************************************************************************)
(* A model of the OCR web form: the request handler ocr_interface          *)
(* (app.py), the preprocessing chain (image_preprocessor.py), the OCR      *)
(* adapter and box renderer (ocr_engine.py) and the formatting helpers     *)
(* (utils.py).                                                             *)
(*                                                                         *)
(* Representation.                                                         *)
(*  - A Python str is a sequence of one-character strings, so that strip() *)
(*    and split('+') are computed and not assumed.                         *)
(*  - A Python number is a rational [num, den] with den > 0.  A confidence *)
(*    delivered by the engine is an integer count of 1/ConfScale units.    *)
(*  - An image is [id, mode, ops, shapes]: the upload it derives from, its *)
(*    PIL mode, the filters applied to its pixels so far and the shapes    *)
(*    drawn on it, both in order.                                          *)
(***************************************************************************)
EXTENDS Integers, Sequences, FiniteSets, TLC

VARIABLES
    pc,               \* position of the request inside ocr_interface
    req,              \* the inputs of the request
    lang_code,        \* app.py:46
    psm_code,         \* app.py:47
    available_langs,  \* app.py:50
    processed_image,  \* app.py:76
    ocr_data,         \* ocr_engine.py:189
    text,             \* ocr_engine.py:192
    bbox_image,       \* ocr_engine.py:195
    avg_confidence,   \* ocr_engine.py:202
    calls,            \* the engine operations invoked so far, in order
    raised,           \* the exception caught at app.py:104, if any
    response,         \* the 4-tuple returned by ocr_interface
    fn_call           \* the last direct call of a library function

vars == <<pc, req, lang_code, psm_code, available_langs, processed_image,
          ocr_data, text, bbox_image, avg_confidence, calls, raised, response,
          fn_call>>

pipeline_vars == <<pc, req, lang_code, psm_code, available_langs,
                   processed_image, ocr_data, text, bbox_image,
                   avg_confidence, calls, raised, response>>

\* Python's None.
None == [none |-> TRUE]

(***************************************************************************)
(* Bounds of the model.                                                    *)
(***************************************************************************)
\* Longest structured result the engine returns inside a request.
MaxWords == 2
\* Longest structured result handed directly to a library function.
MaxRecords == 2

(***************************************************************************)
(* Strings.                                                                *)
(***************************************************************************)
\* The characters str.strip() removes.
Whitespace == {" ", "\t"}

RECURSIVE lstrip(_)
lstrip(s) ==
    IF s = <<>> THEN <<>>
    ELSE IF Head(s) \in Whitespace THEN lstrip(Tail(s)) ELSE s

RECURSIVE rstrip(_)
rstrip(s) ==
    IF s = <<>> THEN <<>>
    ELSE IF s[Len(s)] \in Whitespace THEN rstrip(SubSeq(s, 1, Len(s) - 1))
    ELSE s

\* str.strip()
strip(s) == rstrip(lstrip(s))

\* str.split(sep) for a one-character separator: the pieces between the
\* separators, empty pieces included.
RECURSIVE split(_, _)
split(s, sep) ==
    IF \A i \in 1..Len(s) : s[i] # sep THEN <<s>>
    ELSE LET k == CHOOSE i \in 1..Len(s) :
                      s[i] = sep /\ \A j \in 1..(i - 1) : s[j] # sep
         IN  <<SubSeq(s, 1, k - 1)>> \o split(SubSeq(s, k + 1, Len(s)), sep)

\* x in list
InList(x, l) == \E i \in 1..Len(l) : l[i] = x

(***************************************************************************)
(* Numbers.                                                                *)
(***************************************************************************)
\* Units per 1.0 of an engine confidence.
ConfScale == 1000

\* float(conf) / the number conf itself
Num(c) == [num |-> c, den |-> ConfScale]

NumEq(a, b) == a.num * b.den = b.num * a.den
NumGe(a, b) == a.num * b.den >= b.num * a.den
IntNum(n) == [num |-> n, den |-> 1]

\* Variant: rounding down instead of toward zero.
int_floor(x) == x.num \div x.den

\* int(x): truncation toward zero.
int(x) ==
    IF x.num >= 0 THEN x.num \div x.den ELSE -((-x.num) \div x.den)

\* round(n/d) to the nearest integer, ties to the even one (d > 0), as the
\* fixed-precision float formats do.
RoundHalfEven(n, d) ==
    LET q == n \div d
        r == n % d
    IN  IF 2 * r < d THEN q
        ELSE IF 2 * r > d THEN q + 1
        ELSE IF q % 2 = 0 THEN q ELSE q + 1

RECURSIVE SumSeq(_)
SumSeq(s) == IF s = <<>> THEN 0 ELSE Head(s) + SumSeq(Tail(s))

(***************************************************************************)
(* config.py                                                               *)
(***************************************************************************)
eng == <<"e", "n", "g">>
jpn == <<"j", "p", "n">>

LANGUAGES ==
    [name \in {"Japanese", "English", "English+Japanese"} |->
        CASE name = "Japanese" -> jpn
          [] name = "English" -> eng
          [] name = "English+Japanese" -> eng \o <<"+">> \o jpn]

PSM_MODES ==
    [name \in {"3: auto", "6: block", "7: line", "8: word", "11: sparse"} |->
        CASE name = "3: auto" -> "3"
          [] name = "6: block" -> "6"
          [] name = "7: line" -> "7"
          [] name = "8: word" -> "8"
          [] name = "11: sparse" -> "11"]

DEFAULT_OEM_MODE == "3"

BBOX_COLOR_HIGH_CONF == <<0, 255, 0>>
BBOX_COLOR_MEDIUM_CONF == <<0, 165, 255>>
BBOX_COLOR_LOW_CONF == <<0, 0, 255>>
BBOX_THICKNESS == 2
CONFIDENCE_THRESHOLD_HIGH == 80
CONFIDENCE_THRESHOLD_MEDIUM == 50

(***************************************************************************)
(* image_preprocessor.py                                                   *)
(***************************************************************************)
\* An image as the form delivers it (gr.Image(type="pil"), app.py:135).
Upload(id) == [id |-> id, mode |-> "RGB", ops |-> <<>>, shapes |-> <<>>]

\* The image with one more library filter applied to its pixels.
Filtered(image, op, mode) ==
    [image EXCEPT !.ops = Append(@, op), !.mode = mode]

convert_to_grayscale(image) ==
    Filtered(image, [name |-> "grayscale", factor |-> None], "L")

enhance_contrast(image, factor) ==
    Filtered(image, [name |-> "contrast", factor |-> factor], image.mode)

enhance_sharpness(image, factor) ==
    Filtered(image, [name |-> "sharpness", factor |-> factor], image.mode)

\* pil_to_cv2, fastNlMeansDenoisingColored, cv2_to_pil: the result is RGB.
denoise_image(image) ==
    Filtered(image, [name |-> "denoise", factor |-> None], "RGB")

\* Variant: grayscale is applied first.
preprocess_image_gray_first(image, apply_grayscale, apply_contrast, apply_sharpness, apply_denoise, contrast_factor, sharpness_factor) ==
    LET p0 == image
        p1 == IF apply_grayscale THEN convert_to_grayscale(p0) ELSE p0
        p2 == IF apply_denoise THEN denoise_image(p1) ELSE p1
        p3 == IF apply_contrast THEN enhance_contrast(p2, contrast_factor)
              ELSE p2
        p4 == IF apply_sharpness THEN enhance_sharpness(p3, sharpness_factor)
              ELSE p3
    IN  p4

preprocess_image(image, apply_grayscale, apply_contrast, apply_sharpness, apply_denoise, contrast_factor, sharpness_factor) ==
    LET p0 == image
        p1 == IF apply_denoise THEN denoise_image(p0) ELSE p0
        p2 == IF apply_contrast THEN enhance_contrast(p1, contrast_factor)
              ELSE p1
        p3 == IF apply_sharpness THEN enhance_sharpness(p2, sharpness_factor)
              ELSE p2
        p4 == IF apply_grayscale THEN convert_to_grayscale(p3) ELSE p3
    IN  p4

(***************************************************************************)
(* utils.py                                                                *)
(***************************************************************************)
\* Variant: every value that is not positive reads "N/A".
format_confidence_not_positive(confidence) ==
    IF NumGe(IntNum(0), confidence)
    THEN [na |-> TRUE, tenths |-> 0]
    ELSE [na |-> FALSE,
          tenths |-> RoundHalfEven(confidence.num * 10, confidence.den)]

\* "N/A", or the value with one decimal and "%": tenths counts 0.1 units.
format_confidence(confidence) ==
    IF NumEq(confidence, IntNum(-1))
    THEN [na |-> TRUE, tenths |-> 0]
    ELSE [na |-> FALSE,
          tenths |-> RoundHalfEven(confidence.num * 10, confidence.den)]

\* Variant: the text is tested and stored without strip().
RECURSIVE results_rows_unstripped(_, _)
results_rows_unstripped(data, i) ==
    IF i > Len(data.text) THEN <<>>
    ELSE LET word == data.text[i]
         IN  IF word = <<>> THEN results_rows_unstripped(data, i + 1)
             ELSE <<[word |-> word,
                     conf |-> format_confidence(Num(data.conf[i])),
                     x |-> data.left[i],
                     y |-> data.top[i],
                     w |-> data.width[i],
                     h |-> data.height[i]]>>
                  \o results_rows_unstripped(data, i + 1)

RECURSIVE results_rows(_, _)
results_rows(data, i) ==
    IF i > Len(data.text) THEN <<>>
    ELSE LET word == strip(data.text[i])
         IN  IF word = <<>> THEN results_rows(data, i + 1)
             ELSE <<[word |-> word,
                     conf |-> format_confidence(Num(data.conf[i])),
                     x |-> data.left[i],
                     y |-> data.top[i],
                     w |-> data.width[i],
                     h |-> data.height[i]]>>
                  \o results_rows(data, i + 1)

\* pd.DataFrame(results): the rows, in order.
create_results_dataframe(data) == [rows |-> results_rows(data, 1)]

\* zip(a, b): as long as the shorter list.
ZipLen(a, b) == IF Len(a) < Len(b) THEN Len(a) ELSE Len(b)

RECURSIVE utils_confidences(_, _)
utils_confidences(data, i) ==
    IF i > ZipLen(data.conf, data.text) THEN <<>>
    ELSE IF strip(data.text[i]) # <<>> /\ ~NumEq(Num(data.conf[i]), IntNum(-1))
         THEN <<data.conf[i]>> \o utils_confidences(data, i + 1)
         ELSE utils_confidences(data, i + 1)

calculate_average_confidence(data) ==
    LET confidences == utils_confidences(data, 1)
    IN  IF confidences = <<>> THEN IntNum(0)
        ELSE [num |-> SumSeq(confidences),
              den |-> ConfScale * Len(confidences)]

(***************************************************************************)
(* ocr_engine.py                                                           *)
(***************************************************************************)
\* Variant: the thresholds are exclusive.
get_bbox_color_exclusive(confidence) ==
    IF ~NumGe(IntNum(CONFIDENCE_THRESHOLD_HIGH), confidence)
    THEN BBOX_COLOR_HIGH_CONF
    ELSE IF ~NumGe(IntNum(CONFIDENCE_THRESHOLD_MEDIUM), confidence)
         THEN BBOX_COLOR_MEDIUM_CONF
         ELSE BBOX_COLOR_LOW_CONF

get_bbox_color(confidence) ==
    IF NumGe(confidence, IntNum(CONFIDENCE_THRESHOLD_HIGH))
    THEN BBOX_COLOR_HIGH_CONF
    ELSE IF NumGe(confidence, IntNum(CONFIDENCE_THRESHOLD_MEDIUM))
         THEN BBOX_COLOR_MEDIUM_CONF
         ELSE BBOX_COLOR_LOW_CONF

\* The cv2 calls of one loop iteration of draw_bounding_boxes.  The filled
\* label background spans cv2.getTextSize(label) above the corner (x, y);
\* the label is the confidence printed with no decimals.
box_shapes(data, i, show_confidence) ==
    LET x == data.left[i]
        y == data.top[i]
        w == data.width[i]
        h == data.height[i]
        conf == Num(data.conf[i])
        color == get_bbox_color(conf)
        label == RoundHalfEven(conf.num, conf.den)
    IN  <<[op |-> "rectangle", pt1 |-> <<x, y>>, pt2 |-> <<x + w, y + h>>,
           color |-> color, thickness |-> BBOX_THICKNESS]>>
        \o (IF show_confidence
            THEN <<[op |-> "label_background", above |-> <<x, y>>,
                    size_of |-> label, color |-> color, thickness |-> -1],
                   [op |-> "putText", label |-> label, org |-> <<x, y - 2>>,
                    color |-> <<255, 255, 255>>, thickness |-> 1]>>
            ELSE <<>>)

\* Variant: only records without text are skipped.
RECURSIVE draw_loop_text_only(_, _, _)
draw_loop_text_only(data, i, show_confidence) ==
    IF i > Len(data.text) THEN <<>>
    ELSE IF strip(data.text[i]) = <<>>
         THEN draw_loop_text_only(data, i + 1, show_confidence)
         ELSE box_shapes(data, i, show_confidence)
              \o draw_loop_text_only(data, i + 1, show_confidence)

RECURSIVE draw_loop(_, _, _)
draw_loop(data, i, show_confidence) ==
    IF i > Len(data.text) THEN <<>>
    ELSE IF strip(data.text[i]) = <<>> \/ int(Num(data.conf[i])) = -1
         THEN draw_loop(data, i + 1, show_confidence)
         ELSE box_shapes(data, i, show_confidence)
              \o draw_loop(data, i + 1, show_confidence)

\* The returned image: the given image, as RGB, with the shapes drawn on it.
draw_bounding_boxes(image, data, show_confidence) ==
    [image EXCEPT !.mode = "RGB",
                  !.shapes = @ \o draw_loop(data, 1, show_confidence)]

\* Variant: the sentinel -1 is averaged like any other confidence.
RECURSIVE inline_confidences_with_sentinel(_, _)
inline_confidences_with_sentinel(data, i) ==
    IF i > ZipLen(data.conf, data.text) THEN <<>>
    ELSE IF strip(data.text[i]) # <<>>
         THEN <<data.conf[i]>> \o inline_confidences_with_sentinel(data, i + 1)
         ELSE inline_confidences_with_sentinel(data, i + 1)

RECURSIVE inline_confidences(_, _)
inline_confidences(data, i) ==
    IF i > ZipLen(data.conf, data.text) THEN <<>>
    ELSE IF strip(data.text[i]) # <<>> /\ int(Num(data.conf[i])) # -1
         THEN <<data.conf[i]>> \o inline_confidences(data, i + 1)
         ELSE inline_confidences(data, i + 1)

\* ocr_engine.py:198-202
inline_average(data) ==
    LET confidences == inline_confidences(data, 1)
    IN  IF confidences = <<>> THEN IntNum(0)
        ELSE [num |-> SumSeq(confidences),
              den |-> ConfScale * Len(confidences)]

\* perform_ocr / get_ocr_data: custom_config
custom_config(psm_mode) == [oem |-> DEFAULT_OEM_MODE, psm |-> psm_mode]

\* process_image_with_ocr, given what the two engine calls return.
process_image_with_ocr(image, data, raw_text, show_confidence) ==
    [bbox_image |-> draw_bounding_boxes(image, data, show_confidence),
     text |-> strip(raw_text),
     ocr_data |-> data,
     avg_confidence |-> inline_average(data)]

(***************************************************************************)
(* The environment: what the user submits and what the engine returns.     *)
(***************************************************************************)
\* image_preprocessor.py:114-115
DEFAULT_ENHANCE_FACTOR == 2

Images == {None, Upload("upload")}
LanguageChoices == DOMAIN LANGUAGES \cup {"Korean"}
PsmChoices == {"3: auto", "7: line", "13: raw"}
InstalledLists == {<<>>, <<eng>>, <<jpn>>, <<eng, jpn>>}

\* Sequences over S of length at most n.
SeqsUpTo(S, n) == UNION {[1..k -> S] : k \in 0..n}

\* Word records of the engine, row by row.
Boxes == {[left |-> 0, top |-> 0, width |-> 10, height |-> 5],
          [left |-> 3, top |-> 20, width |-> 7, height |-> 4]}
WordRecord(t, c, b) ==
    [text |-> t, conf |-> c, left |-> b.left, top |-> b.top,
     width |-> b.width, height |-> b.height]

\* pytesseract.Output.DICT: one list per column.
ToColumns(rows) ==
    [text |-> [i \in 1..Len(rows) |-> rows[i].text],
     conf |-> [i \in 1..Len(rows) |-> rows[i].conf],
     left |-> [i \in 1..Len(rows) |-> rows[i].left],
     top |-> [i \in 1..Len(rows) |-> rows[i].top],
     width |-> [i \in 1..Len(rows) |-> rows[i].width],
     height |-> [i \in 1..Len(rows) |-> rows[i].height]]

EngineRecords ==
    {WordRecord(t, c, [left |-> 0, top |-> 0, width |-> 10, height |-> 5]) :
        t \in {<<" ">>, <<"a">>}, c \in {-1000, 0, 80000}}
\* The words of a result lie side by side on one line, so every record has
\* its own box.
InLine(rows) ==
    [i \in 1..Len(rows) |-> [rows[i] EXCEPT !.left = 12 * (i - 1)]]
EngineResults == {ToColumns(InLine(r)) : r \in SeqsUpTo(EngineRecords, MaxWords)}
PlainTexts == {<<" ">>, <<"a", " ">>}

FnRecords ==
    {WordRecord(t, c, b) :
        t \in {<<>>, <<"\t", " ">>, <<" ", "a", " ">>},
        c \in {-1000, -500, 0, 49900, 80000},
        b \in Boxes}
FnResults == {ToColumns(r) : r \in SeqsUpTo(FnRecords, MaxRecords)}

\* Confidences in [-1, 100]: every tenth, and some values in between.
FnConfidences ==
    {c \in (-1 * ConfScale)..(100 * ConfScale) : c % 100 = 0}
        \cup {-999, -1, 1, 49999, 79999, 83456}

(***************************************************************************)
(* ocr_interface (app.py:17-106), one action per stretch of code between   *)
(* two calls of the engine or of the image library.                        *)
(***************************************************************************)
Init ==
    /\ pc = "idle"
    /\ req = None
    /\ lang_code = None
    /\ psm_code = None
    /\ available_langs = None
    /\ processed_image = None
    /\ ocr_data = None
    /\ text = None
    /\ bbox_image = None
    /\ avg_confidence = None
    /\ calls = <<>>
    /\ raised = None
    /\ response = None
    /\ fn_call = None

\* app.py:42
EmptyInputResponse ==
    [image |-> None, text |-> [kind |-> "upload_prompt"],
     confidence |-> <<>>, table |-> None]

\* app.py:55-73
MissingLanguageResponse(language, missing_langs, langs) ==
    [image |-> None,
     text |-> [kind |-> "missing_language", language |-> language,
               missing |-> missing_langs, install |-> missing_langs[1],
               installed |-> langs],
     confidence |-> <<>>, table |-> None]

\* Variant: the error response keeps the image rendered so far.
ErrorResponse_keeps_image(e) ==
    [image |-> bbox_image, text |-> [kind |-> "error", detail |-> e.msg],
     confidence |-> <<>>, table |-> None]

\* app.py:104-106: str(e) inside the error message.
ErrorResponse(e) ==
    [image |-> None, text |-> [kind |-> "error", detail |-> e.msg],
     confidence |-> <<>>, table |-> None]

\* app.py:104-106
Catch(e) ==
    /\ raised' = e
    /\ response' = ErrorResponse(e)
    /\ pc' = "done"

KeyError(key) == [type |-> "KeyError", msg |-> <<"repr", key>>]
Exception(type, where) == [type |-> type, msg |-> <<"message of", where>>]

\* One invocation of the engine: its arguments and how it ended.
Returned(value) == [returned |-> value]
Raised(e) == [raised |-> e]

\* Variant: the null test is missing.
is_none_never(image) == FALSE

\* app.py:41
is_none(image) == image = None

\* Variant: the placeholder is never substituted.
displayed_text_verbatim(extracted_text) ==
    [kind |-> "text", body |-> extracted_text]

\* app.py:93-94
displayed_text(extracted_text) ==
    IF extracted_text = <<>>
    THEN [kind |-> "no_text_placeholder"]
    ELSE [kind |-> "text", body |-> extracted_text]

\* app.py:41-47
Submit(image, language, psm_mode, g, c, s, d) ==
    /\ pc = "idle"
    /\ req' = [image |-> image, language |-> language, psm_mode |-> psm_mode,
               apply_grayscale |-> g, apply_contrast |-> c,
               apply_sharpness |-> s, apply_denoise |-> d]
    /\ IF is_none(image)
       THEN /\ response' = EmptyInputResponse
            /\ pc' = "done"
            /\ UNCHANGED <<lang_code, psm_code, raised>>
       ELSE IF language \notin DOMAIN LANGUAGES
       THEN /\ Catch(KeyError(language))
            /\ UNCHANGED <<lang_code, psm_code>>
       ELSE IF psm_mode \notin DOMAIN PSM_MODES
       THEN /\ lang_code' = LANGUAGES[language]
            /\ Catch(KeyError(psm_mode))
            /\ UNCHANGED psm_code
       ELSE /\ lang_code' = LANGUAGES[language]
            /\ psm_code' = PSM_MODES[psm_mode]
            /\ pc' = "get_languages"
            /\ UNCHANGED <<raised, response>>
    /\ UNCHANGED <<available_langs, processed_image, ocr_data, text,
                   bbox_image, avg_confidence, calls, fn_call>>

\* Variant: only the first required identifier is looked up.
missing_of_first_only(required_langs, langs) ==
    SelectSeq(SubSeq(required_langs, 1, 1), LAMBDA lang : ~InList(lang, langs))

\* app.py:52
missing_of(required_langs, langs) ==
    SelectSeq(required_langs, LAMBDA lang : ~InList(lang, langs))

\* app.py:50-73, the engine answering
GetLanguages(langs) ==
    /\ pc = "get_languages"
    /\ calls' = Append(calls, [op |-> "get_languages",
                               outcome |-> Returned(langs)])
    /\ available_langs' = langs
    /\ LET required_langs == split(lang_code, "+")
           missing_langs == missing_of(required_langs, langs)
       IN  IF missing_langs # <<>>
           THEN /\ response' = MissingLanguageResponse(req.language,
                                                       missing_langs, langs)
                /\ pc' = "done"
           ELSE /\ pc' = "preprocess"
                /\ UNCHANGED response
    /\ UNCHANGED <<req, lang_code, psm_code, processed_image, ocr_data, text,
                   bbox_image, avg_confidence, raised, fn_call>>

\* app.py:50, the engine failing
GetLanguagesRaises ==
    /\ pc = "get_languages"
    /\ LET e == Exception("TesseractNotFoundError", "get_languages")
       IN  /\ calls' = Append(calls, [op |-> "get_languages",
                                      outcome |-> Raised(e)])
           /\ Catch(e)
    /\ UNCHANGED <<req, lang_code, psm_code, available_langs, processed_image,
                   ocr_data, text, bbox_image, avg_confidence, fn_call>>

\* app.py:76-82
Preprocess ==
    /\ pc = "preprocess"
    /\ processed_image' =
          preprocess_image(req.image, req.apply_grayscale,
                           req.apply_contrast, req.apply_sharpness,
                           req.apply_denoise, DEFAULT_ENHANCE_FACTOR,
                           DEFAULT_ENHANCE_FACTOR)
    /\ pc' = "image_to_data"
    /\ UNCHANGED <<req, lang_code, psm_code, available_langs, ocr_data, text,
                   bbox_image, avg_confidence, calls, raised, response,
                   fn_call>>

\* app.py:76-82, image.copy() or an enabled filter failing
PreprocessRaises(step) ==
    /\ pc = "preprocess"
    /\ \/ step = "copy"
       \/ step = "denoise" /\ req.apply_denoise
       \/ step = "contrast" /\ req.apply_contrast
       \/ step = "sharpness" /\ req.apply_sharpness
       \/ step = "grayscale" /\ req.apply_grayscale
    /\ Catch(Exception("ProcessingFailure", step))
    /\ UNCHANGED <<req, lang_code, psm_code, available_langs, processed_image,
                   ocr_data, text, bbox_image, avg_confidence, calls,
                   fn_call>>

\* Variant: the plain-text extraction is given the uploaded image.
EngineCall_text_from_upload(op, outcome) ==
    [op |-> op,
     image |-> IF op = "image_to_string" THEN req.image ELSE processed_image,
     lang |-> lang_code, config |-> custom_config(psm_code),
     outcome |-> outcome]

EngineCall(op, outcome) ==
    [op |-> op, image |-> processed_image, lang |-> lang_code,
     config |-> custom_config(psm_code), outcome |-> outcome]

\* ocr_engine.py:189 (get_ocr_data, 61-68)
GetOcrData(data) ==
    /\ pc = "image_to_data"
    /\ calls' = Append(calls, EngineCall("image_to_data", Returned(data)))
    /\ ocr_data' = data
    /\ pc' = "image_to_string"
    /\ UNCHANGED <<req, lang_code, psm_code, available_langs, processed_image,
                   text, bbox_image, avg_confidence, raised, response,
                   fn_call>>

GetOcrDataRaises ==
    /\ pc = "image_to_data"
    /\ LET e == Exception("TesseractError", "image_to_data")
       IN  /\ calls' = Append(calls, EngineCall("image_to_data", Raised(e)))
           /\ Catch(e)
    /\ UNCHANGED <<req, lang_code, psm_code, available_langs, processed_image,
                   ocr_data, text, bbox_image, avg_confidence, fn_call>>

\* ocr_engine.py:192 (perform_ocr, 40-42)
PerformOcr(raw_text) ==
    /\ pc = "image_to_string"
    /\ calls' = Append(calls,
                       EngineCall("image_to_string", Returned(raw_text)))
    /\ text' = strip(raw_text)
    /\ pc' = "draw"
    /\ UNCHANGED <<req, lang_code, psm_code, available_langs, processed_image,
                   ocr_data, bbox_image, avg_confidence, raised, response,
                   fn_call>>

PerformOcrRaises ==
    /\ pc = "image_to_string"
    /\ LET e == Exception("TesseractError", "image_to_string")
       IN  /\ calls' = Append(calls, EngineCall("image_to_string", Raised(e)))
           /\ Catch(e)
    /\ UNCHANGED <<req, lang_code, psm_code, available_langs, processed_image,
                   ocr_data, text, bbox_image, avg_confidence, fn_call>>

\* ocr_engine.py:195, called with show_confidence=True (app.py:89)
DrawBoxes ==
    /\ pc = "draw"
    /\ bbox_image' = draw_bounding_boxes(processed_image, ocr_data, TRUE)
    /\ pc' = "finish"
    /\ UNCHANGED <<avg_confidence, req, lang_code, psm_code, available_langs,
                   processed_image, ocr_data, text, calls, raised, response,
                   fn_call>>

DrawBoxesRaises ==
    /\ pc = "draw"
    /\ Catch(Exception("ProcessingFailure", "draw_bounding_boxes"))
    /\ UNCHANGED <<req, lang_code, psm_code, available_langs, processed_image,
                   ocr_data, text, bbox_image, avg_confidence, calls,
                   fn_call>>

\* ocr_engine.py:198-204 and app.py:93-102
Finish ==
    /\ pc = "finish"
    /\ avg_confidence' = inline_average(ocr_data)
    /\ response' =
          [image |-> bbox_image,
           text |-> displayed_text(text),
           confidence |-> <<"average confidence: ",
                            format_confidence(avg_confidence')>>,
           table |-> create_results_dataframe(ocr_data)]
    /\ pc' = "done"
    /\ UNCHANGED <<req, lang_code, psm_code, available_langs, processed_image,
                   ocr_data, text, bbox_image, calls, raised, fn_call>>

\* averaging or building the table failing
FinishRaises(step) ==
    /\ pc = "finish"
    /\ Catch(Exception("ProcessingFailure", step))
    /\ UNCHANGED <<req, lang_code, psm_code, available_langs, processed_image,
                   ocr_data, text, bbox_image, avg_confidence, calls,
                   fn_call>>

Booleans == {TRUE, FALSE}

Next ==
    \/ /\ pc = "idle"
       /\ \E image \in Images, language \in LanguageChoices,
             psm_mode \in PsmChoices, g \in Booleans, c \in Booleans,
             s \in Booleans, d \in Booleans :
             Submit(image, language, psm_mode, g, c, s, d)
    \/ /\ pc = "get_languages"
       /\ \E langs \in InstalledLists : GetLanguages(langs)
    \/ GetLanguagesRaises
    \/ Preprocess
    \/ \E step \in {"copy", "denoise", "contrast", "sharpness", "grayscale"} :
          PreprocessRaises(step)
    \/ /\ pc = "image_to_data"
       /\ \E data \in EngineResults : GetOcrData(data)
    \/ GetOcrDataRaises
    \/ /\ pc = "image_to_string"
       /\ \E raw_text \in PlainTexts : PerformOcr(raw_text)
    \/ PerformOcrRaises
    \/ DrawBoxes
    \/ DrawBoxesRaises
    \/ Finish
    \/ \E step \in {"average", "create_results_dataframe"} :
          FinishRaises(step)

Spec == Init /\ [][Next]_vars

(***************************************************************************)
(* The library functions called directly: a call records its arguments and *)
(* its result, and the caller takes the result before the next call.       *)
(***************************************************************************)
Called(fn, args, result) ==
    /\ fn_call' = [fn |-> fn, args |-> args, result |-> result]
    /\ UNCHANGED pipeline_vars

FnReturn ==
    /\ fn_call # None
    /\ fn_call' = None
    /\ UNCHANGED pipeline_vars

CallPreprocessImage(image, g, c, s, d, cf, sf) ==
    /\ fn_call = None
    /\ Called("preprocess_image",
           [image |-> image, apply_grayscale |-> g, apply_contrast |-> c,
            apply_sharpness |-> s, apply_denoise |-> d,
            contrast_factor |-> cf, sharpness_factor |-> sf],
           preprocess_image(image, g, c, s, d, cf, sf))

CallCalculateAverageConfidence(data) ==
    /\ fn_call = None
    /\ Called("calculate_average_confidence", [ocr_data |-> data],
           calculate_average_confidence(data))

CallProcessImageWithOcr(image, data, raw_text, show_confidence) ==
    /\ fn_call = None
    /\ Called("process_image_with_ocr",
           [image |-> image, ocr_data |-> data, raw_text |-> raw_text,
            show_confidence |-> show_confidence],
           process_image_with_ocr(image, data, raw_text, show_confidence))

CallDrawBoundingBoxes(image, data, show_confidence) ==
    /\ fn_call = None
    /\ Called("draw_bounding_boxes",
           [image |-> image, ocr_data |-> data,
            show_confidence |-> show_confidence],
           draw_bounding_boxes(image, data, show_confidence))

CallCreateResultsDataframe(data) ==
    /\ fn_call = None
    /\ Called("create_results_dataframe", [ocr_data |-> data],
           create_results_dataframe(data))

CallGetBboxColor(c) ==
    /\ fn_call = None
    /\ Called("get_bbox_color", [confidence |-> Num(c)], get_bbox_color(Num(c)))

CallFormatConfidence(c) ==
    /\ fn_call = None
    /\ Called("format_confidence", [confidence |-> Num(c)],
           format_confidence(Num(c)))

NextFn ==
    \/ /\ fn_call = None
       /\ \E g \in Booleans, c \in Booleans, s \in Booleans, d \in Booleans,
             cf \in {1, DEFAULT_ENHANCE_FACTOR},
             sf \in {1, DEFAULT_ENHANCE_FACTOR} :
             CallPreprocessImage(Upload("upload"), g, c, s, d, cf, sf)
    \/ /\ fn_call = None
       /\ \E data \in FnResults : CallCalculateAverageConfidence(data)
    \/ /\ fn_call = None
       /\ \E data \in FnResults, raw_text \in PlainTexts, show \in Booleans :
             CallProcessImageWithOcr(Upload("upload"), data, raw_text, show)
    \/ /\ fn_call = None
       /\ \E data \in FnResults, show \in Booleans :
             CallDrawBoundingBoxes(Upload("upload"), data, show)
    \/ /\ fn_call = None
       /\ \E data \in FnResults : CallCreateResultsDataframe(data)
    \/ /\ fn_call = None
       /\ \E c \in FnConfidences : CallGetBboxColor(c)
    \/ /\ fn_call = None
       /\ \E c \in FnConfidences : CallFormatConfidence(c)
    \/ FnReturn

SpecFn == Init /\ [][NextFn]_vars

(***************************************************************************)
(* Properties of a request (checked under Spec).                           *)
(***************************************************************************)
SeqToSet(q) == {q[i] : i \in 1..Len(q)}

\* The string holds nothing but whitespace.
Blank(str) == \A i \in 1..Len(str) : str[i] \in Whitespace

\* The positions of the calls of the two OCR extraction operations.
OcrCalls ==
    {i \in 1..Len(calls) : calls[i].op \in {"image_to_data", "image_to_string"}}

\* The identifiers of a language code: its maximal runs without a "+".
IdsOf(code) ==
    {SubSeq(code, a, b) : a \in 1..Len(code), b \in 1..Len(code)}
        \cap {SubSeq(code, a, b) : <<a, b>> \in
                {ab \in (1..Len(code)) \X (1..Len(code)) :
                    /\ ab[1] <= ab[2]
                    /\ \A i \in ab[1]..ab[2] : code[i] # "+"
                    /\ ab[1] = 1 \/ code[ab[1] - 1] = "+"
                    /\ ab[2] = Len(code) \/ code[ab[2] + 1] = "+"}}

MissingIds == {id \in IdsOf(lang_code) : id \notin SeqToSet(available_langs)}

\* The engine has answered list-installed-languages in this request.
LanguagesListed ==
    /\ Len(calls) > 0
    /\ calls[1].op = "get_languages"
    /\ DOMAIN calls[1].outcome = {"returned"}

\* The request ran to a successful response.
Success == pc = "done" /\ raised = None /\ avg_confidence # None

\* No word record of the structured result has text.
NoWords(data) == \A i \in 1..Len(data.text) : Blank(data.text[i])

\* C1: with a non-null image, once the engine has listed its installed
\* languages and one identifier of the selected code is not among them, the
\* request has ended in the missing-language response, which names exactly
\* the missing identifiers and lists the installed ones, and neither OCR
\* extraction has been invoked.
C1_MissingLanguageReportedBeforeOcr ==
    (req # None /\ req.image # None /\ LanguagesListed /\ MissingIds # {}) =>
        /\ pc = "done"
        /\ raised = None
        /\ response.image = None
        /\ response.table = None
        /\ response.text.kind = "missing_language"
        /\ SeqToSet(response.text.missing) = MissingIds
        /\ Len(response.text.missing) = Cardinality(MissingIds)
        /\ response.text.installed = available_langs
        /\ OcrCalls = {}

C1_Witness ==
    /\ pc = "done"
    /\ LanguagesListed
    /\ req.language = "English+Japanese"
    /\ available_langs = <<eng>>
    /\ response.text.kind = "missing_language"
    /\ response.text.missing = <<jpn>>
    /\ response.text.installed = <<eng>>
    /\ Len(calls) = 1

\* C2: a request whose image is null has ended in the empty-input response
\* (null image, upload prompt, empty confidence string, null table) and has
\* invoked no engine operation and run no preprocessing filter.
C2_EmptyInputTouchesNothing ==
    (req # None /\ req.image = None) =>
        /\ pc = "done"
        /\ response = [image |-> None, text |-> [kind |-> "upload_prompt"],
                       confidence |-> <<>>, table |-> None]
        /\ calls = <<>>
        /\ processed_image = None
        /\ bbox_image = None
        /\ raised = None

C2_Witness ==
    /\ pc = "done"
    /\ req.image = None
    /\ req.language = "Korean"
    /\ req.apply_denoise
    /\ response.text.kind = "upload_prompt"

\* C3: a failure of any step ends the request with a response whose image
\* and table are null, whose confidence string is empty and whose text
\* carries the failure's message; a finished request never returns an image
\* without a table or a table without an image.
C3_FailuresBecomeErrorResponses ==
    /\ raised # None =>
        /\ pc = "done"
        /\ response.image = None
        /\ response.table = None
        /\ response.confidence = <<>>
        /\ response.text.kind = "error"
        /\ response.text.detail = raised.msg
    /\ pc = "done" =>
        /\ response # None
        /\ (response.image = None) <=> (response.table = None)
        /\ (response.image = None) <=> (response.confidence = <<>>)

C3_Witness ==
    /\ pc = "done"
    /\ raised # None
    /\ bbox_image # None
    /\ bbox_image.shapes # <<>>
    /\ response.text.kind = "error"

\* C4 as claimed: a successful request shows the placeholder exactly when
\* the structured result holds no word with text, and then the average is
\* 0.0, the table is empty and an image is returned.
C4_PlaceholderIffNoWords ==
    Success =>
        /\ NoWords(ocr_data) =>
              /\ response.text.kind = "no_text_placeholder"
              /\ NumEq(avg_confidence, IntNum(0))
              /\ response.table.rows = <<>>
              /\ response.image # None
        /\ response.text.kind = "no_text_placeholder" => NoWords(ocr_data)

\* What image_to_string returned in this request.
PlainTextReturned ==
    LET i == CHOOSE j \in 1..Len(calls) : calls[j].op = "image_to_string"
    IN  calls[i].outcome.returned

\* C4, amended: a successful request shows the placeholder exactly when the
\* plain-text extraction returned nothing but whitespace; and when the
\* structured result holds no word with text, the average is 0.0, the table
\* is empty and an image is returned.
C4_PlaceholderIffNoPlainText ==
    Success =>
        /\ response.text.kind = "no_text_placeholder" <=> Blank(PlainTextReturned)
        /\ response.text.kind \in {"no_text_placeholder", "text"}
        /\ response.image # None
        /\ NoWords(ocr_data) =>
              /\ NumEq(avg_confidence, IntNum(0))
              /\ response.confidence[2] = [na |-> FALSE, tenths |-> 0]
              /\ response.table.rows = <<>>

C4_Witness ==
    /\ Success
    /\ Len(ocr_data.text) = MaxWords
    /\ NoWords(ocr_data)
    /\ Blank(PlainTextReturned)
    /\ response.text.kind = "no_text_placeholder"
    /\ response.table.rows = <<>>

\* C5 as claimed: the image of a successful response is the uploaded image
\* with shapes drawn on it: no filter was applied to the pixels under them.
C5_BoxesDrawnOnUpload ==
    Success =>
        /\ response.image.id = req.image.id
        /\ response.image.ops = req.image.ops

(***************************************************************************)
(* Properties of the library functions (checked under SpecFn).             *)
(***************************************************************************)
\* The last call was of this function.
LastCall(fn) == fn_call # None /\ fn_call.fn = fn

\* The word record counts for the average and gets a box.
Scored(data, i) == ~Blank(data.text[i]) /\ data.conf[i] # -1 * ConfScale

RECURSIVE SumConf(_, _)
SumConf(data, S) ==
    IF S = {} THEN 0
    ELSE LET i == CHOOSE j \in S : TRUE
         IN  data.conf[i] + SumConf(data, S \ {i})

\* avg is the arithmetic mean of the scored records' confidences, and
\* exactly 0.0 when there is none.
IsMeanOfScored(avg, data) ==
    LET S == {i \in 1..Len(data.text) : Scored(data, i)}
    IN  /\ avg.den > 0
        /\ IF S = {} THEN avg.num = 0
           ELSE avg.num * ConfScale * Cardinality(S) = SumConf(data, S) * avg.den

\* C6: the average confidence, as utils.calculate_average_confidence and as
\* process_image_with_ocr compute it, is the mean of the confidences of
\* exactly the records with non-blank text and a confidence other than -1,
\* and 0.0 when no record qualifies.
C6_AverageIsMeanOfScoredWords ==
    /\ LastCall("calculate_average_confidence") =>
          IsMeanOfScored(fn_call.result, fn_call.args.ocr_data)
    /\ LastCall("process_image_with_ocr") =>
          IsMeanOfScored(fn_call.result.avg_confidence, fn_call.args.ocr_data)

C6_Witness ==
    /\ LastCall("process_image_with_ocr")
    /\ Len(fn_call.args.ocr_data.text) = 2
    /\ fn_call.args.ocr_data.conf = <<-500, -1000>>
    /\ \A i \in 1..2 : ~Blank(fn_call.args.ocr_data.text[i])
    /\ NumEq(fn_call.result.avg_confidence, [num |-> -1, den |-> 2])

\* The members of a set of numbers, ascending.
RECURSIVE Ascending(_)
Ascending(S) ==
    IF S = {} THEN <<>>
    ELSE LET m == CHOOSE x \in S : \A y \in S : x <= y
         IN  <<m>> \o Ascending(S \ {m})

\* The tier colour of a confidence given in 1/ConfScale units.
TierColor(c) ==
    IF c >= 80 * ConfScale THEN <<0, 255, 0>>
    ELSE IF c >= 50 * ConfScale THEN <<0, 165, 255>>
    ELSE <<0, 0, 255>>

\* C7: draw_bounding_boxes draws, in result order, one unfilled rectangle
\* for each record with non-blank text and a confidence other than -1, at
\* the record's box and in its tier colour, and nothing for the others; a
\* label follows a rectangle exactly when show_confidence is set.
C7_OneBoxPerScoredWord ==
    LastCall("draw_bounding_boxes") =>
        LET data == fn_call.args.ocr_data
            show == fn_call.args.show_confidence
            shapes == fn_call.result.shapes
            idx == Ascending({i \in 1..Len(data.text) : Scored(data, i)})
            per == IF show THEN 3 ELSE 1
        IN  /\ Len(shapes) = per * Len(idx)
            /\ \A k \in 1..Len(idx) :
                  LET i == idx[k]
                      first == per * (k - 1) + 1
                  IN  /\ shapes[first] =
                            [op |-> "rectangle",
                             pt1 |-> <<data.left[i], data.top[i]>>,
                             pt2 |-> <<data.left[i] + data.width[i],
                                       data.top[i] + data.height[i]>>,
                             color |-> TierColor(data.conf[i]),
                             thickness |-> 2]
                      /\ show =>
                            /\ shapes[first + 1].op = "label_background"
                            /\ shapes[first + 1].above =
                                  <<data.left[i], data.top[i]>>
                            /\ shapes[first + 1].color = TierColor(data.conf[i])
                            /\ shapes[first + 2].op = "putText"
            /\ fn_call.result.id = fn_call.args.image.id
            /\ fn_call.result.ops = fn_call.args.image.ops

C7_Witness ==
    /\ LastCall("draw_bounding_boxes")
    /\ fn_call.args.show_confidence
    /\ Len(fn_call.args.ocr_data.text) = 2
    /\ fn_call.args.ocr_data.conf = <<-1000, 49900>>
    /\ \A i \in 1..2 : ~Blank(fn_call.args.ocr_data.text[i])
    /\ Len(fn_call.result.shapes) = 3
    /\ fn_call.result.shapes[1].color = <<0, 0, 255>>

\* The text without its leading and trailing whitespace.
Trimmed(str) ==
    LET keep == {i \in 1..Len(str) : str[i] \notin Whitespace}
    IN  IF keep = {} THEN <<>>
        ELSE SubSeq(str, CHOOSE a \in keep : \A b \in keep : a <= b,
                         CHOOSE a \in keep : \A b \in keep : a >= b)

\* The formatted confidence shows c (in 1/ConfScale units): "N/A" for -1,
\* else the nearest tenth.
Shows(formatted, c) ==
    IF c = -1 * ConfScale THEN formatted.na
    ELSE /\ ~formatted.na
         /\ 2 * (10 * c - formatted.tenths * ConfScale) <= ConfScale
         /\ 2 * (formatted.tenths * ConfScale - 10 * c) <= ConfScale

\* C8: create_results_dataframe returns one row per record with non-blank
\* text, in the records' order, and none for the others; a row carries the
\* record's trimmed text, its formatted confidence ("N/A" for -1) and its
\* box.
C8_OneRowPerWordWithText ==
    LastCall("create_results_dataframe") =>
        LET data == fn_call.args.ocr_data
            rows == fn_call.result.rows
            idx == Ascending({i \in 1..Len(data.text) : ~Blank(data.text[i])})
        IN  /\ Len(rows) = Len(idx)
            /\ \A k \in 1..Len(idx) :
                  LET i == idx[k]
                  IN  /\ rows[k].word = Trimmed(data.text[i])
                      /\ Shows(rows[k].conf, data.conf[i])
                      /\ rows[k].x = data.left[i]
                      /\ rows[k].y = data.top[i]
                      /\ rows[k].w = data.width[i]
                      /\ rows[k].h = data.height[i]

C8_Witness ==
    /\ LastCall("create_results_dataframe")
    /\ Len(fn_call.args.ocr_data.text) = 2
    /\ Blank(fn_call.args.ocr_data.text[1])
    /\ fn_call.args.ocr_data.text[1] # <<>>
    /\ fn_call.args.ocr_data.text[2] = <<" ", "a", " ">>
    /\ fn_call.args.ocr_data.conf[2] = -1000
    /\ Len(fn_call.result.rows) = 1
    /\ fn_call.result.rows[1].word = <<"a">>
    /\ fn_call.result.rows[1].conf.na

\* C9: preprocess_image applies exactly the enabled filters, each once, in
\* the order denoise, contrast, sharpness, grayscale; with no flag set the
\* image is returned unchanged, and grayscale, when enabled, comes last.
C9_FiltersInFixedOrder ==
    LastCall("preprocess_image") =>
        LET a == fn_call.args
            r == fn_call.result
            applied == [i \in 1..Len(r.ops) |-> r.ops[i].name]
            enabled(name) ==
                \/ name = "denoise" /\ a.apply_denoise
                \/ name = "contrast" /\ a.apply_contrast
                \/ name = "sharpness" /\ a.apply_sharpness
                \/ name = "grayscale" /\ a.apply_grayscale
        IN  /\ applied = SelectSeq(<<"denoise", "contrast", "sharpness",
                                     "grayscale">>, enabled)
            /\ r.id = a.image.id
            /\ r.shapes = a.image.shapes
            /\ (~a.apply_denoise /\ ~a.apply_contrast /\ ~a.apply_sharpness
                  /\ ~a.apply_grayscale) => r = a.image
            /\ a.apply_grayscale =>
                  /\ applied[Len(applied)] = "grayscale"
                  /\ r.mode = "L"
            /\ \A i \in 1..Len(r.ops) :
                  /\ r.ops[i].name = "contrast" =>
                        r.ops[i].factor = a.contrast_factor
                  /\ r.ops[i].name = "sharpness" =>
                        r.ops[i].factor = a.sharpness_factor

C9_Witness ==
    /\ LastCall("preprocess_image")
    /\ fn_call.args.apply_denoise
    /\ fn_call.args.apply_contrast
    /\ fn_call.args.apply_sharpness
    /\ fn_call.args.apply_grayscale
    /\ Len(fn_call.result.ops) = 4
    /\ fn_call.result.ops[4].name = "grayscale"

\* C10: get_bbox_color depends on the confidence alone and has two
\* inclusive lower thresholds: high from 80, medium from 50 and below 80,
\* low below 50; 80 is high, 79.9 and 50 are medium, 49.9 is low.
C10_TierThresholdsInclusive ==
    LastCall("get_bbox_color") =>
        LET c == fn_call.args.confidence.num
            color == fn_call.result
        IN  /\ fn_call.args.confidence.den = ConfScale
            /\ color = TierColor(c)
            /\ c = 80000 => color = BBOX_COLOR_HIGH_CONF
            /\ c \in {79900, 50000} => color = BBOX_COLOR_MEDIUM_CONF
            /\ c = 49900 => color = BBOX_COLOR_LOW_CONF
            /\ Cardinality({BBOX_COLOR_HIGH_CONF, BBOX_COLOR_MEDIUM_CONF,
                            BBOX_COLOR_LOW_CONF}) = 3

C10_Witness ==
    /\ LastCall("get_bbox_color")
    /\ fn_call.args.confidence = [num |-> 50000, den |-> 1000]
    /\ fn_call.result = <<0, 165, 255>>

\* C11: format_confidence renders -1 as "N/A" and every other value as the
\* value rounded to one decimal place with "%": 83.456 reads "83.5%" and 0
\* reads "0.0%"; "N/A" is shown for -1 only.
C11_SentinelIsNotAPercentage ==
    LastCall("format_confidence") =>
        LET c == fn_call.args.confidence.num
            shown == fn_call.result
        IN  /\ fn_call.args.confidence.den = ConfScale
            /\ shown.na <=> c = -1 * ConfScale
            /\ ~shown.na =>
                  /\ 2 * (10 * c - shown.tenths * ConfScale) < ConfScale
                  /\ 2 * (shown.tenths * ConfScale - 10 * c) < ConfScale
            /\ c = 83456 => shown = [na |-> FALSE, tenths |-> 835]
            /\ c = 0 => shown = [na |-> FALSE, tenths |-> 0]

C11_Witness ==
    /\ LastCall("format_confidence")
    /\ fn_call.args.confidence = [num |-> 83456, den |-> 1000]
    /\ fn_call.result = [na |-> FALSE, tenths |-> 835]

(***************************************************************************)
(* Properties of the engine calls of a request (checked under Spec).       *)
(***************************************************************************)
\* The positions in the log of the calls of one engine operation.
CallsOf(op) == {i \in 1..Len(calls) : calls[i].op = op}

\* The call at position i ended with the engine raising.
CallFailed(i) == "raised" \in DOMAIN calls[i].outcome

\* C12: no engine operation is invoked twice in a request; a successful
\* request has invoked each of the three exactly once, both extractions
\* with the preprocessed image, the code of the selected language and the
\* code of the selected segmentation mode; a failed engine call is the last
\* one of its request, which has ended with an error response carrying the
\* engine's message.
C12_EngineCalledOnceNeverRetried ==
    /\ \A op \in {"get_languages", "image_to_data", "image_to_string"} :
          /\ Cardinality(CallsOf(op)) <= 1
          /\ Success => Cardinality(CallsOf(op)) = 1
    /\ Len(calls) <= 3
    /\ Success =>
          \A i \in OcrCalls :
             /\ calls[i].image = processed_image
             /\ calls[i].image.id = req.image.id
             /\ calls[i].lang = LANGUAGES[req.language]
             /\ calls[i].config.psm = PSM_MODES[req.psm_mode]
             /\ ~CallFailed(i)
    /\ \A i \in 1..Len(calls) :
          CallFailed(i) =>
             /\ i = Len(calls)
             /\ pc = "done"
             /\ response.image = None
             /\ response.text.kind = "error"
             /\ response.text.detail = calls[i].outcome.raised.msg

C12_Witness ==
    /\ Success
    /\ req.apply_grayscale
    /\ req.apply_denoise
    /\ req.psm_mode = "7: line"
    /\ req.language = "English+Japanese"
    /\ Len(calls) = 3
    /\ calls[2].op = "image_to_data"
    /\ calls[3].op = "image_to_string"
    /\ calls[3].config = [oem |-> "3", psm |-> "7"]
    /\ Len(calls[3].image.ops) = 2

\* The records of the structured result whose rectangle is on the returned
\* image, and those with a row in the table, identified by their position.
Boxed ==
    {i \in 1..Len(ocr_data.text) :
        \E k \in 1..Len(response.image.shapes) :
            /\ response.image.shapes[k].op = "rectangle"
            /\ response.image.shapes[k].pt1 = <<ocr_data.left[i], ocr_data.top[i]>>}

Rowed ==
    {i \in 1..Len(ocr_data.text) :
        \E k \in 1..Len(response.table.rows) :
            /\ response.table.rows[k].x = ocr_data.left[i]
            /\ response.table.rows[k].y = ocr_data.top[i]}

RowOf(i) ==
    CHOOSE k \in 1..Len(response.table.rows) :
        /\ response.table.rows[k].x = ocr_data.left[i]
        /\ response.table.rows[k].y = ocr_data.top[i]

Rectangles ==
    {k \in 1..Len(response.image.shapes) :
        response.image.shapes[k].op = "rectangle"}

\* C13: in every successful response the annotated image, the average
\* confidence and the table agree on the structured result: the records with
\* a box are exactly those with non-blank text and a confidence other than
\* -1, the average is the mean over exactly the boxed records, every boxed
\* record has a table row, the table rows are the records with non-blank
\* text, and the rows without a box are exactly the records with non-blank
\* text and confidence -1, whose table confidence reads N/A.
C13_BoxesAverageAndTableAgree ==
    Success =>
        LET n == Len(ocr_data.text)
            sentinel == {i \in 1..n : /\ ~Blank(ocr_data.text[i])
                                      /\ ocr_data.conf[i] = -1 * ConfScale}
        IN  /\ Boxed = {i \in 1..n : Scored(ocr_data, i)}
            /\ Cardinality(Rectangles) = Cardinality(Boxed)
            /\ avg_confidence.den > 0
            /\ IF Boxed = {} THEN avg_confidence.num = 0
               ELSE avg_confidence.num * ConfScale * Cardinality(Boxed)
                       = SumConf(ocr_data, Boxed) * avg_confidence.den
            /\ Boxed \subseteq Rowed
            /\ Rowed = {i \in 1..n : ~Blank(ocr_data.text[i])}
            /\ Len(response.table.rows) = Cardinality(Rowed)
            /\ Rowed \ Boxed = sentinel
            /\ \A i \in Rowed :
                  response.table.rows[RowOf(i)].conf.na <=> i \notin Boxed

C13_Witness ==
    /\ Success
    /\ ocr_data.conf = <<-1000, 80000>>
    /\ \A i \in 1..2 : ~Blank(ocr_data.text[i])
    /\ Boxed = {2}
    /\ Rowed = {1, 2}
    /\ response.table.rows[1].conf.na
    /\ ~response.table.rows[2].conf.na
    /\ NumEq(avg_confidence, [num |-> 80, den |-> 1])

=============================================================================
